---- MODULE Spec2Model ----
(***************************************************************************)
(* Model of src/project/app.py: the ledger pipeline process_excel_file    *)
(* (scrub, numeric coercion, sold sign, leg merge, group/aggregate,       *)
(* materiality filter, formatting) and the Flask handlers upload_file and *)
(* download_file that run it and store / serve its CSV artifact.          *)
(*                                                                         *)
(* Numbers are fixed point, in hundredths (the model's number 1000000 is  *)
(* the quantity 10000.00).  Text is a sequence of one-character strings,  *)
(* so that parsing, formatting and filename sanitising are computed       *)
(* character by character.  pandas semantics are those of pandas 1.1-2.x. *)
(***************************************************************************)
EXTENDS Integers, Sequences, FiniteSets, TLC

\* ------------------------------------------------------------------ bounds
MaxRows == 2
MaxUploads == 2

\* ------------------------------------------------------ fixed-point scale
Scale == 100

\* ------------------------------------------------------------------- cells
\* A cell of a DataFrame: NaN (blank Excel cell), None (assigned by the
\* scrub), a string, or a number.
NaN == [k |-> "nan", s |-> <<>>, v |-> 0]
None == [k |-> "none", s |-> <<>>, v |-> 0]
Str(s) == [k |-> "str", s |-> s, v |-> 0]
Num(v) == [k |-> "num", s |-> <<>>, v |-> v]

\* pd.isnull / pd.notnull
IsNull(c) == c.k \in {"nan", "none"}
NotNull(c) == ~IsNull(c)

Abs(x) == IF x < 0 THEN -x ELSE x

\* ----------------------------------------------------------- text helpers
DigitChars == <<"0", "1", "2", "3", "4", "5", "6", "7", "8", "9">>
IsDigit(ch) == \E i \in 1..10 : DigitChars[i] = ch
DigitVal(ch) == (CHOOSE i \in 1..10 : DigitChars[i] = ch) - 1

RECURSIVE Digits(_)
\* decimal digits of a natural number
Digits(n) == IF n < 10 THEN <<DigitChars[n + 1]>>
             ELSE Digits(n \div 10) \o <<DigitChars[(n % 10) + 1]>>

RECURSIVE Group3(_)
\* the ',' thousands grouping of the format specifier
Group3(ds) == IF Len(ds) <= 3 THEN ds
              ELSE Group3(SubSeq(ds, 1, Len(ds) - 3)) \o <<",">>
                   \o SubSeq(ds, Len(ds) - 2, Len(ds))

\* str(x) of a Python float
FloatRepr(v) ==
    LET a == Abs(v)
        f == a % Scale
        frac == IF f % 10 = 0 THEN <<DigitChars[(f \div 10) + 1]>>
                ELSE <<DigitChars[(f \div 10) + 1], DigitChars[(f % 10) + 1]>>
    IN (IF v < 0 THEN <<"-">> ELSE <<>>) \o Digits(a \div Scale) \o <<".">> \o frac

\* Series.astype(str): every cell becomes a string, missing ones included
AsTypeStr(c) ==
    CASE c.k = "nan" -> Str(<<"n", "a", "n">>)
      [] c.k = "none" -> Str(<<"N", "o", "n", "e">>)
      [] c.k = "num" -> Str(FloatRepr(c.v))
      [] OTHER -> c

RECURSIVE RemoveChar(_, _)
\* str.replace(ch, '')
RemoveChar(s, ch) ==
    IF s = <<>> THEN <<>>
    ELSE (IF Head(s) = ch THEN <<>> ELSE <<Head(s)>>) \o RemoveChar(Tail(s), ch)

StrReplaceComma(c) == IF c.k = "str" THEN Str(RemoveChar(c.s, ",")) ELSE c

RECURSIVE DigitsVal(_)
DigitsVal(ds) == IF ds = <<>> THEN 0
                 ELSE DigitsVal(SubSeq(ds, 1, Len(ds) - 1)) * 10 + DigitVal(ds[Len(ds)])

AllDigits(ds) == \A i \in 1..Len(ds) : IsDigit(ds[i])

\* pd.to_numeric(..., errors='coerce') of one string: [sign] digits [. digits],
\* with at most two fraction digits (the model's number domain); anything
\* else, 'nan' and 'None' included, becomes NaN.
ToNumeric(c) ==
    IF c.k # "str" THEN c
    ELSE
      LET neg == c.s # <<>> /\ Head(c.s) = "-"
          body == IF neg THEN Tail(c.s) ELSE c.s
          dots == {i \in 1..Len(body) : body[i] = "."}
          ip == IF dots = {} THEN body
                ELSE SubSeq(body, 1, (CHOOSE i \in dots : TRUE) - 1)
          fp == IF dots = {} THEN <<>>
                ELSE SubSeq(body, (CHOOSE i \in dots : TRUE) + 1, Len(body))
          ok == /\ Cardinality(dots) <= 1
                /\ Len(ip) + Len(fp) >= 1
                /\ Len(fp) <= 2
                /\ AllDigits(ip) /\ AllDigits(fp)
          fv == IF Len(fp) = 0 THEN 0
                ELSE IF Len(fp) = 1 THEN DigitVal(fp[1]) * 10
                ELSE DigitsVal(fp)
          mag == DigitsVal(ip) * Scale + fv
      IN IF ok THEN Num(IF neg THEN -mag ELSE mag) ELSE NaN

\* f"{x:,.2f}" if pd.notnull(x) else x
FormatNumber(c) ==
    IF c.k # "num" THEN c
    ELSE LET a == Abs(c.v)
             f == a % Scale
         IN Str((IF c.v < 0 THEN <<"-">> ELSE <<>>)
                \o Group3(Digits(a \div Scale)) \o <<".">>
                \o <<DigitChars[(f \div 10) + 1], DigitChars[(f % 10) + 1]>>)

\* ------------------------------------------------------------ DataFrames
\* A DataFrame is [columns : sequence of column names,
\*                 rows : sequence of functions column name -> cell].
NoFrame == [columns |-> <<>>, rows |-> <<>>]
ColSet(df) == {df.columns[i] : i \in 1..Len(df.columns)}
HasCol(df, c) == c \in ColSet(df)

\* df[c] = df[c].apply(F)
MapCol(df, c, F(_)) ==
    [df EXCEPT !.rows = [i \in 1..Len(df.rows) |-> [df.rows[i] EXCEPT ![c] = F(@)]]]

RECURSIVE EnsureCols(_, _)
\* pandas' loc.__setitem__ with a list of column labels first adds the labels
\* that do not exist, as columns of NaN (_ensure_listlike_indexer)
EnsureCols(df, cs) ==
    IF cs = <<>> THEN df
    ELSE LET c == Head(cs)
             d == IF HasCol(df, c) THEN df
                  ELSE [columns |-> Append(df.columns, c),
                        rows |-> [i \in 1..Len(df.rows) |->
                                    [x \in DOMAIN df.rows[i] \cup {c} |->
                                       IF x = c THEN NaN ELSE df.rows[i][x]]]]
         IN EnsureCols(d, Tail(cs))

\* df.drop(columns=cs)
DropCols(df, cs) ==
    [columns |-> SelectSeq(df.columns, LAMBDA c : c \notin cs),
     rows |-> [i \in 1..Len(df.rows) |->
                 [x \in DOMAIN df.rows[i] \ cs |-> df.rows[i][x]]]]

\* df[c] = df[c].fillna(df[other])
FillNa(df, c, other) ==
    [df EXCEPT !.rows = [i \in 1..Len(df.rows) |->
        [df.rows[i] EXCEPT ![c] = IF IsNull(@) THEN df.rows[i][other] ELSE @]]]

\* ------------------------------------------------------- process_excel_file
SYS18 == <<"S", "Y", "S", "1", "8">>
SYS27 == <<"S", "Y", "S", "2", "7">>
ExcludedCodes == {SYS18, SYS27}

\* df.loc[mask, cols] = None, mask = df[codeCol].isin(['SYS18', 'SYS27'])
ScrubSide(df, codeCol, cols) ==
    LET d == EnsureCols(df, cols)
        cs == {cols[j] : j \in 1..Len(cols)}
    IN [d EXCEPT !.rows = [i \in 1..Len(d.rows) |->
          IF d.rows[i][codeCol].k = "str" /\ d.rows[i][codeCol].s \in ExcludedCodes
          THEN [x \in DOMAIN d.rows[i] |-> IF x \in cs THEN None ELSE d.rows[i][x]]
          ELSE d.rows[i]]]

\* lines 50-59
CleanCodes(df) ==
    LET d1 == MapCol(MapCol(df, "Bought Code", AsTypeStr), "Sold Code", AsTypeStr)
        d2 == ScrubSide(d1, "Bought Code", <<"Bought Code", "Bought Name", "Bought Quantity">>)
    IN ScrubSide(d2, "Sold Code", <<"Sold Code", "Sold Name", "Sold Quantity">>)

\* line 73
value_column(df) == IF HasCol(df, "Mkt. Value") THEN "Mkt. Value" ELSE "Value"

\* pd.to_numeric(df[c].astype(str).str.replace(',', ''), errors='coerce')
CoerceCell(c) == ToNumeric(StrReplaceComma(AsTypeStr(c)))

\* lines 62-77
ConvertNumeric(df) ==
    MapCol(MapCol(MapCol(df, "Bought Quantity", CoerceCell),
                  "Sold Quantity", CoerceCell),
           value_column(df), CoerceCell)

\* lambda x: -abs(x) if pd.notnull(x) else x
NegAbs(c) == IF NotNull(c) THEN Num(-Abs(c.v)) ELSE c

\* NegateSold with the value of a row with a sold quantity negated as well
NegateSoldAndValue(df) ==
    [df EXCEPT !.rows = [i \in 1..Len(df.rows) |->
        IF NotNull(df.rows[i]["Sold Quantity"])
        THEN [df.rows[i] EXCEPT !["Sold Quantity"] = NegAbs(@),
                                ![value_column(df)] = NegAbs(@)]
        ELSE df.rows[i]]]

\* lines 80-82; the Value column is left as it is (lines 84-86)
NegateSold(df) == MapCol(df, "Sold Quantity", NegAbs)

\* lines 89-91
MergeLegs(df) ==
    FillNa(FillNa(FillNa(df, "Bought Code", "Sold Code"),
                  "Bought Name", "Sold Name"),
           "Bought Quantity", "Sold Quantity")

\* line 96
DropSold(df) == DropCols(df, {"Sold Code", "Sold Name", "Sold Quantity"})

\* ------------------------------------------------------------- group by
\* code point order of the characters the model uses
CharOrder == <<" ", ",", "-", ".", "/", "0", "1", "2", "3", "4", "5", "6", "7",
               "8", "9", "A", "L", "N", "S", "X", "Y", "_", "a", "b", "c", "d",
               "e", "l", "n", "o", "p", "r", "s", "t", "v", "x">>
Ord(ch) == CHOOSE i \in 1..Len(CharOrder) : CharOrder[i] = ch

RECURSIVE StrLess(_, _)
StrLess(a, b) ==
    IF a = <<>> THEN b # <<>>
    ELSE IF b = <<>> THEN FALSE
    ELSE IF Head(a) = Head(b) THEN StrLess(Tail(a), Tail(b))
    ELSE Ord(Head(a)) < Ord(Head(b))

\* a missing key cell (NaN or None) is one key value, the NA key
KeyCell(c) == IF IsNull(c) THEN NaN ELSE c
\* sort order of one key level: strings ascending, NA last
CellLess(a, b) ==
    IF IsNull(a) THEN FALSE
    ELSE IF IsNull(b) THEN TRUE
    ELSE StrLess(a.s, b.s)

\* the group-by columns listed code first
GroupColsCodeFirst == <<"Bought Code", "Bought Name", "Scrip Name">>
\* line 100
GroupCols == <<"Bought Name", "Scrip Name", "Bought Code">>
KeyOf(row) == <<KeyCell(row["Bought Name"]), KeyCell(row["Scrip Name"]),
                KeyCell(row["Bought Code"])>>
KeyLess(a, b) ==
    \/ CellLess(a[1], b[1])
    \/ a[1] = b[1] /\ CellLess(a[2], b[2])
    \/ a[1] = b[1] /\ a[2] = b[2] /\ CellLess(a[3], b[3])

\* the keys of groupby without dropna=False: rows with a missing key are left out
GroupKeysDropNa(df) ==
    {KeyOf(df.rows[i]) : i \in {j \in 1..Len(df.rows) :
        \A c \in {"Bought Name", "Scrip Name", "Bought Code"} : NotNull(df.rows[j][c])}}

\* groupby(..., dropna=False): every row's key is a group key
GroupKeys(df) == {KeyOf(df.rows[i]) : i \in 1..Len(df.rows)}

RECURSIVE SortKeys(_)
SortKeys(S) ==
    IF S = {} THEN <<>>
    ELSE LET m == CHOOSE x \in S : \A y \in S \ {x} : KeyLess(x, y)
         IN <<m>> \o SortKeys(S \ {m})

RECURSIVE SumCol(_, _, _, _)
\* 'sum' of column c over the rows of group key (missing cells are skipped,
\* an all-missing group sums to 0)
SumCol(df, key, c, i) ==
    IF i = 0 THEN 0
    ELSE SumCol(df, key, c, i - 1)
         + (IF KeyOf(df.rows[i]) = key /\ df.rows[i][c].k = "num"
            THEN df.rows[i][c].v ELSE 0)

\* lines 99-106: groupby(...).agg({...}).reset_index()
GroupAgg(df) ==
    LET vc == value_column(df)
        keys == SortKeys(GroupKeys(df))
    IN [columns |-> GroupCols \o <<"Bought Quantity", vc>>,
        rows |-> [g \in 1..Len(keys) |->
                    [x \in {"Bought Name", "Scrip Name", "Bought Code",
                            "Bought Quantity", vc} |->
                       CASE x = "Bought Name" -> keys[g][1]
                         [] x = "Scrip Name" -> keys[g][2]
                         [] x = "Bought Code" -> keys[g][3]
                         [] x = "Bought Quantity" ->
                              Num(SumCol(df, keys[g], "Bought Quantity", Len(df.rows)))
                         [] OTHER -> Num(SumCol(df, keys[g], vc, Len(df.rows)))]]]

\* line 109: summary.rename(columns={value_column: 'Value'})
RenameValue(df, vc) ==
    [columns |-> [i \in 1..Len(df.columns) |->
                    IF df.columns[i] = vc THEN "Value" ELSE df.columns[i]],
     rows |-> [i \in 1..Len(df.rows) |->
                 [x \in (DOMAIN df.rows[i] \ {vc}) \cup {"Value"} |->
                    IF x = "Value" THEN df.rows[i][vc] ELSE df.rows[i][x]]]]

\* lines 113-114
QtyThreshold == 9999
ValueThreshold == 999999

\* the boolean mask of lines 112-115
IsLarge(row) ==
    \/ Abs(row["Bought Quantity"].v) > QtyThreshold * Scale
    \/ Abs(row["Value"].v) > ValueThreshold * Scale

\* lines 112-115
FilterLarge(df) == [df EXCEPT !.rows = SelectSeq(df.rows, IsLarge)]

\* lines 118-123
FormatColumns(df) ==
    MapCol(MapCol(df, "Bought Quantity", FormatNumber), "Value", FormatNumber)

\* The first KeyError of the run, which line 127 turns into an exception:
\* df['Bought Code'] / df['Sold Code'] (lines 50-51), df[value_column]
\* (line 75), groupby on 'Scrip Name' (line 100).
Raises(df) ==
    \/ ~HasCol(df, "Bought Code")
    \/ ~HasCol(df, "Sold Code")
    \/ ~HasCol(df, value_column(df))
    \/ ~HasCol(df, "Scrip Name")

\* the table at each point of a run of process_excel_file
Cleaned(sheet) == NegateSold(ConvertNumeric(CleanCodes(sheet)))
Merged(c) == MergeLegs(c)
Summary(m) == RenameValue(GroupAgg(DropSold(m)), value_column(m))
Result(g) == FormatColumns(FilterLarge(g))

\* ------------------------------------------------------------------ inputs
\* The sheets the model reads: the table at line 49, after the header has
\* been resolved and the deny-listed columns dropped.
A1 == <<"A", "1">>
Al == <<"A", "l">>
AL == <<"A", "L">>
XName == <<"X">>

Leg(code, name, qty) == [code |-> code, name |-> name, qty |-> qty]
BlankLeg == Leg(NaN, NaN, NaN)
BoughtLegs == {BlankLeg,
               Leg(Str(A1), Str(Al), Str(<<"1", "2", ",", "0", "0", "0">>)),
               Leg(Str(SYS18), Str(XName), Num(500 * Scale))}
SoldLegs == {BlankLeg,
             Leg(Str(A1), Str(Al), Num(2000 * Scale)),
             Leg(Str(SYS27), Str(XName), Num(1000 * Scale))}
ScripCells == {NaN, Str(AL)}
ValueCells == {Num(999999 * Scale + 50), Str(<<"8", ",", "0", "0", "0">>), Str(<<"x">>)}

BaseColumns == <<"Bought Code", "Bought Name", "Bought Quantity",
                 "Sold Code", "Sold Name", "Sold Quantity", "Scrip Name">>
Without(cols, c) == SelectSeq(cols, LAMBDA x : x # c)
\* the usual column layout of the ledger export
FullLayout == BaseColumns \o <<"Mkt. Value">>
\* layouts with the value column under its other name, or lacking a column
OtherLayouts == {BaseColumns \o <<"Value">>,
                 Without(FullLayout, "Bought Quantity"),
                 Without(FullLayout, "Sold Quantity"),
                 Without(FullLayout, "Scrip Name")}

MkRow(cols, b, sl, scrip, val) ==
    [x \in {cols[i] : i \in 1..Len(cols)} |->
       CASE x = "Bought Code" -> b.code
         [] x = "Bought Name" -> b.name
         [] x = "Bought Quantity" -> b.qty
         [] x = "Sold Code" -> sl.code
         [] x = "Sold Name" -> sl.name
         [] x = "Sold Quantity" -> sl.qty
         [] x = "Scrip Name" -> scrip
         [] OTHER -> val]

\* rows of the full layout: every combination of the legs, scrips and values
RowsOf(cols) == {MkRow(cols, b, sl, scrip, val) :
                   b \in BoughtLegs, sl \in SoldLegs,
                   scrip \in ScripCells, val \in ValueCells}
\* rows of the other layouts: a bought-only, a sold-only and a two-sided row
FewRowsOf(cols) ==
    LET b == Leg(Str(A1), Str(Al), Str(<<"1", "2", ",", "0", "0", "0">>))
        sl == Leg(Str(A1), Str(Al), Num(2000 * Scale))
        val == Str(<<"8", ",", "0", "0", "0">>)
    IN {MkRow(cols, b, BlankLeg, Str(AL), val),
        MkRow(cols, BlankLeg, sl, Str(AL), val),
        MkRow(cols, b, sl, Str(AL), val)}

\* the rows a sheet of the given layout is drawn from
RowChoices(cols) == IF cols = FullLayout THEN RowsOf(cols) ELSE FewRowsOf(cols)
Layouts == {FullLayout} \cup OtherLayouts
\* sheet is a table of at most MaxRows rows in one of the layouts
IsSheet(sheet) ==
    \E cols \in Layouts, n \in 0..MaxRows :
       \E rs \in [1..n -> RowChoices(cols)] : sheet = [columns |-> cols, rows |-> rs]

\* --------------------------------------------------------------- filenames
LowerChar(ch) ==
    CASE ch = "A" -> "a" [] ch = "L" -> "l" [] ch = "N" -> "n"
      [] ch = "S" -> "s" [] ch = "X" -> "x" [] ch = "Y" -> "y"
      [] OTHER -> ch
\* str.lower()
Lower(str) == [i \in 1..Len(str) |-> LowerChar(str[i])]

LastDot(str) == LET ds == {i \in 1..Len(str) : str[i] = "."}
                IN IF ds = {} THEN 0 ELSE CHOOSE i \in ds : \A j \in ds : j <= i
\* str.rsplit('.', 1)[0] and [1]
Stem(str) == IF LastDot(str) = 0 THEN str ELSE SubSeq(str, 1, LastDot(str) - 1)
Ext(str) == SubSeq(str, LastDot(str) + 1, Len(str))

XlsxExt == <<"x", "l", "s", "x">>
\* line 17
ALLOWED_EXTENSIONS == {XlsxExt}
\* lines 22-23
allowed_file(filename) ==
    LastDot(filename) # 0 /\ Lower(Ext(filename)) \in ALLOWED_EXTENSIONS

RECURSIVE SkipSpaces(_)
SkipSpaces(str) == IF str # <<>> /\ Head(str) = " " THEN SkipSpaces(Tail(str)) ELSE str

RECURSIVE JoinWords(_)
\* "_".join(str.split()), str without leading whitespace
JoinWords(str) ==
    IF str = <<>> THEN <<>>
    ELSE IF Head(str) = " "
         THEN (IF SkipSpaces(str) = <<>> THEN <<>>
               ELSE <<"_">> \o JoinWords(SkipSpaces(str)))
    ELSE <<Head(str)>> \o JoinWords(Tail(str))

\* the characters werkzeug keeps: [A-Za-z0-9_.-]
IsSafeChar(ch) == ch \notin {" ", ",", "/", "\""}

RECURSIVE StripLeft(_)
StripLeft(str) == IF str # <<>> /\ Head(str) \in {".", "_"} THEN StripLeft(Tail(str)) ELSE str
RECURSIVE StripRight(_)
StripRight(str) == IF str # <<>> /\ str[Len(str)] \in {".", "_"}
                   THEN StripRight(SubSeq(str, 1, Len(str) - 1)) ELSE str

\* werkzeug.utils.secure_filename: path separators become spaces, words are
\* joined with '_', other characters are removed, '.' and '_' are stripped
\* from both ends
secure_filename(filename) ==
    LET spaced == [i \in 1..Len(filename) |->
                     IF filename[i] = "/" THEN " " ELSE filename[i]]
        joined == JoinWords(SkipSpaces(spaced))
    IN StripRight(StripLeft(SelectSeq(joined, IsSafeChar)))

ProcessedPrefix == <<"p", "r", "o", "c", "e", "s", "s", "e", "d", "_">>
CsvSuffix == <<".", "c", "s", "v">>
\* line 177
OutputFilename(filename) == ProcessedPrefix \o Stem(filename) \o CsvSuffix

ApiDownload == <<"/", "a", "p", "i", "/", "d", "o", "w", "n", "l", "o", "a", "d", "/">>
\* line 194
DownloadUrl(output_filename) == ApiDownload \o output_filename
\* the <filename> part of a URL routed to /api/download/<filename>
RouteFilename(url) == SubSeq(url, Len(ApiDownload) + 1, Len(url))

\* ----------------------------------------------------------- CSV, preview
\* one field of DataFrame.to_csv: a missing value is the empty field, a
\* field with a comma is quoted
CsvField(c) ==
    IF IsNull(c) THEN Str(<<>>)
    ELSE IF \E i \in 1..Len(c.s) : c.s[i] = ","
         THEN Str(<<"\"">> \o c.s \o <<"\"">>)
    ELSE Str(c.s)

\* result_df.to_csv(output_path, index=False): the header line and the lines
ToCsv(df) ==
    [columns |-> df.columns,
     rows |-> [i \in 1..Len(df.rows) |->
                 [x \in DOMAIN df.rows[i] |-> CsvField(df.rows[i][x])]]]

\* line 187
PreviewRows == 5
\* result_df.head(5).fillna('').to_dict('records')
Preview(df) ==
    LET n == IF Len(df.rows) < PreviewRows THEN Len(df.rows) ELSE PreviewRows
    IN [i \in 1..n |->
          [x \in DOMAIN df.rows[i] |->
             IF IsNull(df.rows[i][x]) THEN Str(<<>>) ELSE df.rows[i][x]]]

\* what a call of process_excel_file gives its caller
process_excel_file(sheet) ==
    IF Raises(sheet) THEN [raised |-> TRUE, df |-> NoFrame]
    ELSE [raised |-> FALSE, df |-> Result(Summary(Merged(Cleaned(sheet))))]

\* ------------------------------------------------------------------- state
VARIABLES
    xlsx,       \* the sheet process_excel_file is run on
    pc,         \* "idle", "start", "returned" or "raised"
    cleaned,    \* df after line 82
    merged,     \* df after line 91
    grouped,    \* summary after line 109
    result,     \* the returned summary (line 125)
    uploads,    \* the upload requests: position, locals and response
    fs,         \* the files under tempfile.gettempdir(): [dir, name, frame]
    served      \* the last response of download_file

pvars == <<xlsx, pc, cleaned, merged, grouped, result>>
svars == <<uploads, fs, served>>
vars == <<xlsx, pc, cleaned, merged, grouped, result, uploads, fs, served>>

NoResponse == [status |-> 0, success |-> FALSE, error |-> "", total_records |-> 0,
               filename |-> <<>>, columns |-> <<>>, preview |-> <<>>,
               download_url |-> <<>>]
NewUpload == [pc |-> "new", raw |-> <<>>, filename |-> <<>>, temp_dir |-> 0,
              result_df |-> NoFrame, response |-> NoResponse]
NothingServed == [url |-> <<>>, status |-> 0, frame |-> NoFrame, dir |-> 0, after |-> {}]

InitServerVars ==
    /\ uploads = [r \in 1..MaxUploads |-> NewUpload]
    /\ fs = {}
    /\ served = NothingServed

InitPipeline ==
    /\ IsSheet(xlsx)
    /\ pc = "start"
    /\ cleaned = NoFrame /\ merged = NoFrame /\ grouped = NoFrame /\ result = NoFrame
    /\ InitServerVars

\* process_excel_file, a run that returns (lines 49-125)
ProcessReturns ==
    /\ pc = "start"
    /\ ~Raises(xlsx)
    /\ cleaned' = Cleaned(xlsx)
    /\ merged' = Merged(cleaned')
    /\ grouped' = Summary(merged')
    /\ result' = Result(grouped')
    /\ pc' = "returned"
    /\ UNCHANGED <<xlsx, uploads, fs, served>>

\* process_excel_file, a run that ends in the except clause (lines 127-128)
ProcessRaises ==
    /\ pc = "start"
    /\ Raises(xlsx)
    /\ pc' = "raised"
    /\ UNCHANGED <<xlsx, cleaned, merged, grouped, result, uploads, fs, served>>

NextPipeline == ProcessReturns \/ ProcessRaises

Spec == InitPipeline /\ [][NextPipeline]_vars

\* ------------------------------------------------------------------ server
\* the uploads the model sends
Filenames == {<<>>,
              <<"a", ".", "t", "x", "t">>,
              <<"a", ".", "x", "l", "s", "x">>,
              <<"a", ".", "X", "L", "S", "X">>,
              <<"a", " ", "b", ".", "x", "l", "s", "x">>}

BoughtAlpha(q) == Leg(Str(A1), Str(Al), q)
SoldAlpha(q) == Leg(Str(A1), Str(Al), q)
\* a bought row of 12000 and a sold row of 2000 of the same instrument
NetSheet ==
    [columns |-> FullLayout,
     rows |-> <<MkRow(FullLayout, BoughtAlpha(Num(12000 * Scale)), BlankLeg,
                      Str(AL), Num(50000 * Scale)),
                MkRow(FullLayout, BlankLeg, SoldAlpha(Num(2000 * Scale)),
                      Str(AL), Num(8000 * Scale))>>]
\* one bought row, the value column named 'Value'
ValueSheet ==
    LET cols == BaseColumns \o <<"Value">>
    IN [columns |-> cols,
        rows |-> <<MkRow(cols, BoughtAlpha(Str(<<"1", "2", ",", "0", "0", "0">>)),
                         BlankLeg, Str(AL), Num(999999 * Scale + 50))>>]
\* a sheet without the Scrip Name column
NoScripSheet ==
    LET cols == Without(FullLayout, "Scrip Name")
    IN [columns |-> cols,
        rows |-> <<MkRow(cols, BoughtAlpha(Num(12000 * Scale)), BlankLeg,
                         NaN, Num(50000 * Scale))>>]
ServerSheets == {NetSheet, ValueSheet, NoScripSheet}

\* a name a client asks download_file for without having been given it
ProbeNames == {<<"p", "r", "o", "c", "e", "s", "s", "e", "d", "_", "b", ".", "c", "s", "v">>}

InitServer ==
    /\ xlsx = NoFrame
    /\ pc = "idle"
    /\ cleaned = NoFrame /\ merged = NoFrame /\ grouped = NoFrame /\ result = NoFrame
    /\ InitServerVars

Reject(r, raw, msg) ==
    /\ uploads' = [uploads EXCEPT ![r] =
          [@ EXCEPT !.pc = "done", !.raw = raw,
                    !.response = [NoResponse EXCEPT !.status = 400, !.error = msg]]]
    /\ UNCHANGED fs

\* os.path.join(dir, name) written with frame: an existing file is replaced
WriteFile(files, dir, name, frame) ==
    {f \in files : ~(f.dir = dir /\ f.name = name)}
    \cup {[dir |-> dir, name |-> name, frame |-> frame]}

\* upload_file up to file.save (lines 143-169).  tempfile.mkdtemp() makes a
\* directory that did not exist before; the model names it after the request.
upload_file_save(r) ==
    /\ uploads[r].pc = "new"
    /\ \A q \in 1..(r - 1) : uploads[q].pc # "new"
    /\ \E hasFile \in BOOLEAN, raw \in Filenames, sheet \in ServerSheets :
          IF ~hasFile THEN Reject(r, <<>>, "No file part")
          ELSE IF raw = <<>> THEN Reject(r, raw, "No file selected")
          ELSE IF ~allowed_file(raw)
               THEN Reject(r, raw, "Invalid file type. Only .xlsx files are allowed")
          ELSE LET filename == secure_filename(raw)
               IN /\ uploads' = [uploads EXCEPT ![r] =
                        [@ EXCEPT !.pc = "saved", !.raw = raw,
                                  !.filename = filename, !.temp_dir = r]]
                  /\ fs' = WriteFile(fs, r, filename, sheet)
    /\ UNCHANGED <<pvars, served>>

\* upload_file from process_excel_file to the response (lines 171-205)
upload_file_process(r) ==
    /\ uploads[r].pc = "saved"
    /\ LET u == uploads[r]
           sheet == (CHOOSE f \in fs : f.dir = u.temp_dir /\ f.name = u.filename).frame
           out == process_excel_file(sheet)
           output_filename == OutputFilename(u.filename)
       IN IF out.raised
          THEN /\ uploads' = [uploads EXCEPT ![r] =
                     [@ EXCEPT !.pc = "done",
                               !.response = [NoResponse EXCEPT !.status = 500,
                                                !.error = "Processing failed"]]]
               /\ UNCHANGED fs
          ELSE /\ fs' = WriteFile(fs, u.temp_dir, output_filename, ToCsv(out.df))
               /\ uploads' = [uploads EXCEPT ![r] =
                     [@ EXCEPT !.pc = "done", !.result_df = out.df,
                               !.response =
                                  [status |-> 200, success |-> TRUE, error |-> "",
                                   total_records |-> Len(out.df.rows),
                                   filename |-> output_filename,
                                   columns |-> out.df.columns,
                                   preview |-> Preview(out.df),
                                   download_url |-> DownloadUrl(output_filename)]]]
    /\ UNCHANGED <<pvars, served>>

Responded == {r \in 1..MaxUploads : uploads[r].pc = "done" /\ uploads[r].response.success}

\* the handler of /api/download/<filename> (lines 207-236).  os.walk lists the directories in the
\* order of the directory listing, which the file system chooses: any
\* directory that holds a file of that name may be found first.
download_file ==
    /\ \E url \in {uploads[r].response.download_url : r \in Responded}
                  \cup {DownloadUrl(n) : n \in ProbeNames} :
          LET filename == secure_filename(RouteFilename(url))
              found == {f \in fs : f.name = filename}
          IN IF found = {}
             THEN served' = [url |-> url, status |-> 404, frame |-> NoFrame,
                             dir |-> 0, after |-> Responded]
             ELSE \E f \in found :
                     served' = [url |-> url, status |-> 200, frame |-> f.frame,
                                dir |-> f.dir, after |-> Responded]
    /\ UNCHANGED <<pvars, uploads, fs>>

NextServer ==
    \/ \E r \in 1..MaxUploads : upload_file_save(r)
    \/ \E r \in 1..MaxUploads : upload_file_process(r)
    \/ download_file

SpecServer == InitServer /\ [][NextServer]_vars

\* ==================================================================== claims
\* Vocabulary of the claims, stated on the input sheet and not on the code.
Returned == pc = "returned"
RowIdx == 1..Len(xlsx.rows)
\* the cell of input row i in column c (missing when the sheet lacks c)
InCell(i, c) == IF HasCol(xlsx, c) THEN xlsx.rows[i][c] ELSE NaN
\* the number an input cell stands for, NaN when it stands for none
InNumber(i, c) == CoerceCell(InCell(i, c))
IsExcluded(c) == c.k = "str" /\ c.s \in {SYS18, SYS27}
VC == value_column(xlsx)
\* equality of cells that does not tell one missing value from another
SameCell(a, b) == (IsNull(a) /\ IsNull(b)) \/ a = b
NumOrZero(c) == IF c.k = "num" THEN c.v ELSE 0

\* C1: a row whose bought (sold) code is SYS18/SYS27 loses that side's code
\* and name in cleaning but keeps that side's quantity (sold: as a negative
\* magnitude) and its market value.
C1_ScrubPreservesMagnitude ==
    Returned =>
      \A i \in RowIdx :
         /\ IsExcluded(InCell(i, "Bought Code")) =>
               /\ IsNull(cleaned.rows[i]["Bought Code"])
               /\ IsNull(cleaned.rows[i]["Bought Name"])
               /\ SameCell(cleaned.rows[i]["Bought Quantity"], InNumber(i, "Bought Quantity"))
               /\ SameCell(cleaned.rows[i][VC], InNumber(i, VC))
         /\ IsExcluded(InCell(i, "Sold Code")) =>
               /\ IsNull(cleaned.rows[i]["Sold Code"])
               /\ IsNull(cleaned.rows[i]["Sold Name"])
               /\ SameCell(cleaned.rows[i]["Sold Quantity"], NegAbs(InNumber(i, "Sold Quantity")))

\* the net of a bought and a (negative) sold quantity
NetQuantity(b, sl) ==
    IF b.k = "num" /\ sl.k = "num" THEN Num(b.v + sl.v)
    ELSE IF b.k = "num" THEN b
    ELSE IF sl.k = "num" THEN sl
    ELSE NaN

\* C2: the merged quantity of every row is bought + sold when both are
\* present, the present side when only one is, and missing when neither is.
C2_MergeNetsQuantities ==
    Returned =>
      \A i \in RowIdx :
         SameCell(merged.rows[i]["Bought Quantity"],
                  NetQuantity(cleaned.rows[i]["Bought Quantity"],
                              cleaned.rows[i]["Sold Quantity"]))

RECURSIVE InputNet(_)
\* bought quantities minus the magnitudes of the sold quantities, rows 1..n
InputNet(n) ==
    IF n = 0 THEN 0
    ELSE InputNet(n - 1) + NumOrZero(InNumber(n, "Bought Quantity"))
                         - Abs(NumOrZero(InNumber(n, "Sold Quantity")))
RECURSIVE OutputTotal(_)
\* the quantity column of the output, read back as numbers, rows 1..n
OutputTotal(n) ==
    IF n = 0 THEN 0
    ELSE OutputTotal(n - 1) + NumOrZero(CoerceCell(result.rows[n]["Bought Quantity"]))

\* C3: when no input row carries an excluded code, the output quantities add
\* up to the input's bought quantities minus its sold quantities.
C3_QuantityConservation ==
    (Returned /\ \A i \in RowIdx : ~IsExcluded(InCell(i, "Bought Code"))
                                   /\ ~IsExcluded(InCell(i, "Sold Code")))
    => OutputTotal(Len(result.rows)) = InputNet(Len(xlsx.rows))

SameKey(a, b) ==
    /\ SameCell(a["Bought Name"], b["Bought Name"])
    /\ SameCell(a["Scrip Name"], b["Scrip Name"])
    /\ SameCell(a["Bought Code"], b["Bought Code"])
InOutput(g) == \E j \in 1..Len(result.rows) : SameKey(result.rows[j], g)

\* C4: a group is in the output if and only if abs(quantity sum) >= 10000
\* or abs(value sum) >= 1000000.
C4_MaterialityFilter ==
    Returned =>
      \A g \in 1..Len(grouped.rows) :
         InOutput(grouped.rows[g])
         <=> (\/ Abs(grouped.rows[g]["Bought Quantity"].v) >= 10000 * Scale
              \/ Abs(grouped.rows[g]["Value"].v) >= 1000000 * Scale)

SideCell(i, codeCol, c) ==
    IF IsNull(InCell(i, c)) \/ IsExcluded(InCell(i, codeCol)) THEN NaN ELSE InCell(i, c)
Coalesce(a, b) == IF NotNull(a) THEN a ELSE b

\* C6: final_code is the bought code when present, else the sold code;
\* final_name is the bought name when present, else the sold name.
C6_IdentityCoalesced ==
    Returned =>
      \A i \in RowIdx :
         /\ SameCell(merged.rows[i]["Bought Code"],
                     Coalesce(SideCell(i, "Bought Code", "Bought Code"),
                              SideCell(i, "Sold Code", "Sold Code")))
         /\ SameCell(merged.rows[i]["Bought Name"],
                     Coalesce(SideCell(i, "Bought Code", "Bought Name"),
                              SideCell(i, "Sold Code", "Sold Name")))

HasNullKey(row) ==
    IsNull(row["Bought Name"]) \/ IsNull(row["Scrip Name"]) \/ IsNull(row["Bought Code"])
RECURSIVE KeyTotal(_, _, _)
\* the sum of column c over the merged rows 1..n that have the key of row,
\* missing cells counting 0
KeyTotal(row, c, n) ==
    IF n = 0 THEN 0
    ELSE KeyTotal(row, c, n - 1)
         + (IF SameKey(merged.rows[n], row) THEN NumOrZero(merged.rows[n][c]) ELSE 0)

\* C8: a merged row with a missing name, scrip or code belongs to exactly one
\* group, the group of its key; the group's sums are the sums over the rows of
\* that key with missing cells counting 0; and the group is in the output
\* whenever it meets the materiality thresholds.
C8_NullGroupsSurvive ==
    Returned =>
      \A i \in RowIdx :
         HasNullKey(merged.rows[i]) =>
            /\ Cardinality({g \in 1..Len(grouped.rows) :
                              SameKey(grouped.rows[g], merged.rows[i])}) = 1
            /\ \A g \in 1..Len(grouped.rows) :
                  SameKey(grouped.rows[g], merged.rows[i]) =>
                     /\ grouped.rows[g]["Bought Quantity"]
                          = Num(KeyTotal(merged.rows[i], "Bought Quantity", Len(merged.rows)))
                     /\ grouped.rows[g]["Value"]
                          = Num(KeyTotal(merged.rows[i], VC, Len(merged.rows)))
                     /\ (\/ Abs(grouped.rows[g]["Bought Quantity"].v) >= 10000 * Scale
                         \/ Abs(grouped.rows[g]["Value"].v) >= 1000000 * Scale)
                        => InOutput(grouped.rows[g])

\* two rows without name, scrip and code were summed into one group that is
\* in the output
C8_Witness ==
    /\ Returned
    /\ \E i, j \in RowIdx :
          /\ i # j
          /\ \A k \in {i, j} : /\ IsNull(merged.rows[k]["Bought Name"])
                               /\ IsNull(merged.rows[k]["Scrip Name"])
                               /\ IsNull(merged.rows[k]["Bought Code"])
                               /\ merged.rows[k][VC].k = "num"
    /\ \E j \in 1..Len(result.rows) :
          /\ IsNull(result.rows[j]["Bought Name"])
          /\ IsNull(result.rows[j]["Scrip Name"])
          /\ IsNull(result.rows[j]["Bought Code"])

\* ------------------------------------------------------ claims on the server
\* the uploads whose file was accepted and saved
Accepted == {r \in 1..MaxUploads : uploads[r].temp_dir # 0}
\* the file at os.path.join(dir, name), when there is one
FilesAt(dir, name) == {f \in fs : f.dir = dir /\ f.name = name}
\* the sheet upload r carried
SheetOf(r) == (CHOOSE f \in FilesAt(uploads[r].temp_dir, uploads[r].filename) : TRUE).frame

\* C7: the outputs of two uploads are different files, the output file of an
\* upload holds the CSV of that upload's result, and a download of the URL an
\* upload returned serves the CSV of that upload.
C7_UploadsIndependent ==
    /\ \A r1, r2 \in Responded :
          r1 # r2 => uploads[r1].temp_dir # uploads[r2].temp_dir
    /\ \A r \in Responded :
          \A f \in FilesAt(uploads[r].temp_dir, uploads[r].response.filename) :
             f.frame = ToCsv(uploads[r].result_df)
    /\ \A r \in served.after :
          (served.url = uploads[r].response.download_url)
          => (served.status = 200 /\ served.frame = ToCsv(uploads[r].result_df))

\* C9: an upload of a sheet that lacks only the Bought Quantity, Sold
\* Quantity or Scrip Name column is processed and answered with success.
C9_OptionalColumnsDefaulted ==
    \A r \in Accepted :
       (/\ uploads[r].pc = "done"
        /\ {"Bought Code", "Sold Code", "Bought Name", "Sold Name"} \subseteq ColSet(SheetOf(r))
        /\ HasCol(SheetOf(r), value_column(SheetOf(r))))
       => (uploads[r].response.status = 200 /\ uploads[r].response.success)

\* the header of the CSV file upload r wrote
CsvHeaderOf(r) ==
    (CHOOSE f \in FilesAt(uploads[r].temp_dir, uploads[r].response.filename) : TRUE).frame.columns

SchemaOfClaim == <<"Bought Name", "Scrip Name", "Bought Code",
                   "Sum of Bought Quantity", "Sum of Value">>
SchemaOfCode == <<"Bought Name", "Scrip Name", "Bought Code", "Bought Quantity", "Value">>
====
